---- MODULE Spec2Model ----
(***************************************************************************)
(* Model of the WS2812 driver of ws2812viper.py: the intensity setter, the *)
(* work buffer fill paths (update_buf, fill_buf, copy_external_buf), the   *)
(* buffer map, the viper encoder _prep_buf and the SPI transmission.       *)
(*                                                                         *)
(* Python arrays are 0-based; the sequences below are 1-based, so element  *)
(* i of an array is element i+1 of the sequence (see Get and Store).       *)
(***************************************************************************)
EXTENDS Integers, Sequences, FiniteSets, TLC

VARIABLES
    constructed,   \* TRUE once __init__ has returned an instance
    led_count,     \* self.led_count
    _intensity,    \* self._intensity (the stored fixed-point intensity)
    buf,           \* self.buf, the SPI data buffer
    work_buf,      \* self.work_buf
    buffer_map,    \* self.buffer_map
    external,      \* the caller-owned buffer handed to copy_external_buf
    spi_sent,      \* the buffer last handed to self.spi.send
    spi_calls,     \* number of self.spi.send invocations made by the last call
    spi_fault,     \* TRUE when the most recent self.spi.send raised
    requested,     \* the value last assigned to intensity, as a numerator over IntensityDen
    call,          \* the last call: its name, arguments, return value and outcome
    calls,         \* number of calls made so far
    enc            \* the encoder under test: one channel value, one stored intensity

vars == <<constructed, led_count, _intensity, buf, work_buf, buffer_map, external,
          spi_sent, spi_calls, spi_fault, requested, call, calls, enc>>

driver_vars == <<constructed, led_count, _intensity, buf, work_buf, buffer_map, external,
                 spi_sent, spi_calls, spi_fault, requested, call, calls>>

-----------------------------------------------------------------------------
(* Bounds of the model. *)

\* largest led_count a chain is constructed with
MaxLeds == 2
\* longest data / offsets sequence handed to a call
MaxData == 2
\* number of calls made after construction
MaxCalls == 2

\* an intensity value is the fraction n / IntensityDen, so value*256 = n/2
IntensityDen == 2 * 256

\* the intensity values callers assign: -1/2, 1/2, 1, 2
IntensityInputs == {-256, 256, 512, 1024}

\* led_count values of a chain (the documented domain: count of LEDs)
LedCounts == 1..MaxLeds
\* led_count values including the invalid ones (zero and negative)
AnyLedCounts == -1..MaxLeds

\* the (R, G, B) tuples callers show
Palette == <<<<255, 0, 0>>, <<10, 20, 30>>, <<1, 2, 3>>>>

\* the data callers show: up to MaxData tuples of the palette, taken in turn
\* from its first or its second tuple on
DataInputs ==
    {[i \in 1..len |-> Palette[((from + i - 1) % Len(Palette)) + 1]] :
        from \in 0..1, len \in 0..MaxData}

\* the caller-owned external buffer: three bytes for each of MaxLeds LEDs
ExternalBuf == [i \in 1..(3 * MaxLeds) |-> i]

\* the per-LED base offsets callers map: the LED records in another order, or
\* the first record past the end of the external buffer
OffsetInputs ==
    {[i \in 1..len |-> 3 * (i % MaxLeds)] : len \in 0..MaxData}
        \cup {[i \in 1..len |-> IF i = 1 THEN 3 * MaxLeds ELSE 3 * (i - 1)] :
                len \in 1..MaxData}

\* the channel offsets callers map
ChannelOffsets == {<<0, 1, 2>>, <<1, 0, 2>>}

\* what a read past the end of the external buffer may yield
Junk == {0, 255}

Min(a, b) == IF a < b THEN a ELSE b
Max(a, b) == IF a > b THEN a ELSE b

-----------------------------------------------------------------------------
(* Integer operations of the code. *)

\* x >> k on a (signed) integer
Shr(x, k) == x \div (2 ^ k)
\* x << k
Shl(x, k) == x * (2 ^ k)
\* bit k of x in two's complement
Bit(x, k) == (x \div (2 ^ k)) % 2
\* x & m for a mask m in 0..255
And(x, m) ==
    LET b(k) == Bit(x, k) * Bit(m, k) * (2 ^ k)
    IN  b(0) + b(1) + b(2) + b(3) + b(4) + b(5) + b(6) + b(7)
\* a | b for a, b in 0..255
Or(a, b) ==
    LET o(k) == (IF Bit(a, k) = 1 \/ Bit(b, k) = 1 THEN 1 ELSE 0) * (2 ^ k)
    IN  o(0) + o(1) + o(2) + o(3) + o(4) + o(5) + o(6) + o(7)

\* int(x) for the rational x = n / 2: truncation towards zero
IntOfHalves(n) == IF n >= 0 THEN n \div 2 ELSE -((-n) \div 2)

\* array element i (0-based)
Get(arr, i) == arr[i + 1]
\* arr[i] = v (0-based)
Store(arr, i, v) == [arr EXCEPT ![i + 1] = v]
\* array('B', (0 for _ in range(n)))
Zeros(n) == [k \in 1..n |-> 0]


-----------------------------------------------------------------------------
(* The intensity setter. *)

\* int(min(1, value)*256 + 0.5) for value = n / IntensityDen:
\* min(1, value)*256 + 0.5 is (Min(IntensityDen, n) + 1) / 2
intensity_setter(n) == IntOfHalves(Min(IntensityDen, n) + 1)

-----------------------------------------------------------------------------
(* The encoder. *)

\* scale with the product truncated to a byte instead of shifted
scale_truncating(v, q) == (v * q) % 256

\* value = ((src[i] * intensity) >> 8)
scale(v, q) == Shr(v * q, 8)

\* encode_byte with the two payload positions of the second byte exchanged
encode_byte_swapped(value, k) ==
    CASE k = 0 -> Or(Or(And(Shr(value, 5), 2), And(Shr(value, 2), 32)), 17)
      [] k = 1 -> Or(Or(And(Shr(value, 4), 2), And(Shl(value, 1), 32)), 17)
      [] k = 2 -> Or(Or(And(Shr(value, 1), 2), And(Shl(value, 2), 32)), 17)
      [] k = 3 -> Or(Or(And(Shl(value, 1), 2), And(Shl(value, 4), 32)), 17)

\* the four bytes written to dst for one scaled value, k = 0..3
encode_byte(value, k) ==
    CASE k = 0 -> Or(Or(And(Shr(value, 5), 2), And(Shr(value, 2), 32)), 17)
      [] k = 1 -> Or(Or(And(Shr(value, 3), 2), And(value, 32)), 17)
      [] k = 2 -> Or(Or(And(Shr(value, 1), 2), And(Shl(value, 2), 32)), 17)
      [] k = 3 -> Or(Or(And(Shl(value, 1), 2), And(Shl(value, 4), 32)), 17)

\* the values scale yields for a byte and the stored intensities of the model
ScaledValues == -256..255

\* encode_byte, tabulated
encode_table == [value \in ScaledValues |-> [k \in 0..3 |-> encode_byte(value, k)]]

\* _prep_buf(src, dst, intensity, count): dst after the loop over range(count)
_prep_buf(src, dst, intensity, count) ==
    [j \in 1..Len(dst) |->
        IF j <= 4 * count
        THEN encode_table[scale(Get(src, (j - 1) \div 4), intensity)][(j - 1) % 4]
        ELSE dst[j]]

\* prep_buf(): self.buf after encoding self.work_buf
prep_buf(wb, b, q, lc) == _prep_buf(wb, b, q, lc * 3)

\* send_buf sending self.buf before it is encoded
send_buf_stale(wb, b, q, lc, sendOk) ==
    [buf |-> prep_buf(wb, b, q, lc), sent |-> b, sends |-> 1, ok |-> sendOk]

\* send_buf sending once more after a failed send
send_buf_retry(wb, b, q, lc, sendOk) ==
    [buf |-> prep_buf(wb, b, q, lc), sent |-> prep_buf(wb, b, q, lc),
     sends |-> IF sendOk THEN 1 ELSE 2, ok |-> sendOk]

\* send_buf(): encode, then one spi.send of self.buf; sendOk is the transport's
\* outcome, an exception of spi.send leaves send_buf at once
send_buf(wb, b, q, lc, sendOk) ==
    LET encoded == prep_buf(wb, b, q, lc)
    IN  [buf |-> encoded, sent |-> encoded, sends |-> 1, ok |-> sendOk]

-----------------------------------------------------------------------------
(* The tuple path. *)

InRange(arr, i) == i >= 0 /\ i < Len(arr)

\* the loop of update_buf from position index on; ok is FALSE when a store
\* raises IndexError
RECURSIVE update_loop(_, _, _, _)
update_loop(wb, work_buf_len, index, data) ==
    IF data = <<>> \/ index >= work_buf_len
    THEN [work_buf |-> wb, index |-> index, ok |-> TRUE]
    ELSE LET red   == Head(data)[1]
             green == Head(data)[2]
             blue  == Head(data)[3]
             w1 == Store(wb, index, green)
             w2 == Store(w1, index + 1, red)
             w3 == Store(w2, index + 2, blue)
         IN  IF ~InRange(wb, index) THEN [work_buf |-> wb, index |-> index, ok |-> FALSE]
             ELSE IF ~InRange(w1, index + 1)
                  THEN [work_buf |-> w1, index |-> index + 1, ok |-> FALSE]
             ELSE IF ~InRange(w2, index + 2)
                  THEN [work_buf |-> w2, index |-> index + 2, ok |-> FALSE]
             ELSE update_loop(w3, work_buf_len, index + 3, Tail(data))

\* update_buf with the loop guard index > work_buf_len
update_buf_overrun(wb, lc, data, start) ==
    LET r == update_loop(wb, lc * 3 + 1, start * 3, data)
    IN  [work_buf |-> r.work_buf, ret |-> r.index \div 3, ok |-> r.ok]

\* update_buf(data, start): the work buffer after it, and its return value
update_buf(wb, lc, data, start) ==
    LET r == update_loop(wb, lc * 3, start * 3, data)
    IN  [work_buf |-> r.work_buf, ret |-> r.index \div 3, ok |-> r.ok]

\* fill_buf without the loop that turns the rest of the LEDs off
fill_buf_keeps_rest(wb, lc, data) ==
    [work_buf |-> update_buf(wb, lc, data, 0).work_buf, ok |-> update_buf(wb, lc, data, 0).ok]

\* fill_buf(data): update_buf(data), then zero range(end * 3, work_buf_length)
fill_buf(wb, lc, data) ==
    LET u == update_buf(wb, lc, data, 0)
        end == u.ret
    IN  IF ~u.ok THEN [work_buf |-> u.work_buf, ok |-> FALSE]
        ELSE [work_buf |-> [j \in 1..Len(wb) |->
                              IF j - 1 >= end * 3 /\ j - 1 < lc * 3
                              THEN 0 ELSE u.work_buf[j]],
              ok |-> TRUE]

-----------------------------------------------------------------------------
(* The buffer map path. *)

\* the loop of set_buffer_map from position index on
RECURSIVE map_loop(_, _, _, _)
map_loop(bm, max_index, index, data) ==
    IF data = <<>> \/ index >= max_index
    THEN bm
    ELSE map_loop(Store(bm, index, Head(data)), max_index, index + 1, Tail(data))

\* set_buffer_map with max_index = led_count + 2
set_buffer_map_short(bm, lc, data, r_offset, g_offset, b_offset) ==
    map_loop(Store(Store(Store(bm, 0, r_offset), 1, g_offset), 2, b_offset), lc + 2, 3, data)

\* set_buffer_map(data, r_offset, g_offset, b_offset): the map after it
set_buffer_map(bm, lc, data, r_offset, g_offset, b_offset) ==
    LET m0 == Store(Store(Store(bm, 0, r_offset), 1, g_offset), 2, b_offset)
    IN  map_loop(m0, lc + 3, 3, data)

\* src_index_of without the reordering to (G, R, B)
src_index_of_rgb(bufmap, dst_index) ==
    LET r_offset == Get(bufmap, 0)
        g_offset == Get(bufmap, 1)
        b_offset == Get(bufmap, 2)
        src_index == Get(bufmap, (dst_index \div 3) + 3)
    IN  CASE dst_index % 3 = 0 -> src_index + r_offset
          [] dst_index % 3 = 1 -> src_index + g_offset
          [] dst_index % 3 = 2 -> src_index + b_offset

\* the index of src that _copy_external_buf reads for dst[dst_index]
src_index_of(bufmap, dst_index) ==
    LET r_offset == Get(bufmap, 0)
        g_offset == Get(bufmap, 1)
        b_offset == Get(bufmap, 2)
        src_index == Get(bufmap, (dst_index \div 3) + 3)
    IN  CASE dst_index % 3 = 0 -> src_index + g_offset
          [] dst_index % 3 = 1 -> src_index + r_offset
          [] dst_index % 3 = 2 -> src_index + b_offset

\* the positions of dst whose read lies past the end of src
OutOfBounds(src, dst, bufmap, lc) ==
    {i \in 0..(Len(dst) - 1) : i \div 3 < lc /\ ~InRange(src, src_index_of(bufmap, i))}

\* _copy_external_buf(src, dst, bufmap, led_count): dst after the loop; a
\* ptr8 read is unchecked, junk[i] is what the read past the end of src for
\* dst[i] yields
_copy_external_buf(src, dst, bufmap, lc, junk) ==
    [j \in 1..Len(dst) |->
        IF (j - 1) \div 3 >= lc THEN dst[j]
        ELSE IF InRange(src, src_index_of(bufmap, j - 1))
             THEN Get(src, src_index_of(bufmap, j - 1))
             ELSE junk[j - 1]]

\* every access of _copy_external_buf lies inside src
LargeEnough(src, bufmap, lc) ==
    \A i \in 0..(lc - 1) : \A c \in 0..2 :
        InRange(src, Get(bufmap, i + 3) + Get(bufmap, c))

-----------------------------------------------------------------------------
(* The constructor and show. *)

\* show(data): fill_buf(data), then send_buf()
show(wb, b, q, lc, data, sendOk) ==
    LET f == fill_buf(wb, lc, data)
        s == send_buf(f.work_buf, b, q, lc, sendOk)
    IN  IF ~f.ok
        THEN [work_buf |-> f.work_buf, buf |-> b, sent |-> <<>>, sends |-> 0, ok |-> FALSE]
        ELSE [work_buf |-> f.work_buf, buf |-> s.buf, sent |-> s.sent,
              sends |-> s.sends, ok |-> s.ok]

\* __init__(spi_bus, led_count, intensity): the fields it sets and the outcome
\* of its show([]); there is no check of led_count
new(lc, n, sendOk) ==
    LET q  == intensity_setter(n)
        b0 == Zeros(lc * 3 * 4)
        w0 == Zeros(lc * 3)
        s  == show(w0, b0, q, lc, <<>>, sendOk)
    IN  [led_count |-> lc, _intensity |-> q, buf |-> s.buf, work_buf |-> s.work_buf,
         buffer_map |-> <<0, 1, 2>> \o [i \in 1..lc |-> (i - 1) * 3],
         sent |-> s.sent, sends |-> s.sends, ok |-> s.ok]

-----------------------------------------------------------------------------
(* The state machine. *)

Call(op, data, num, rgb, ret, ok) ==
    [op |-> op, data |-> data, num |-> num, rgb |-> rgb, ret |-> ret, ok |-> ok]

EncIdle == [v |-> 0, q |-> 0, scaled |-> 0, out |-> <<>>, done |-> FALSE]

\* no chain exists yet
NoChain ==
    /\ constructed = FALSE
    /\ led_count = 0
    /\ _intensity = 0
    /\ buf = <<>>
    /\ work_buf = <<>>
    /\ buffer_map = <<>>
    /\ spi_sent = <<>>
    /\ spi_calls = 0
    /\ spi_fault = FALSE
    /\ requested = 0
    /\ call = Call("none", <<>>, 0, <<>>, 0, TRUE)
    /\ calls = 0

Init ==
    /\ NoChain
    /\ external = ExternalBuf
    /\ enc = EncIdle

\* chain = WS2812(spi_bus, led_count=lc, intensity=n/IntensityDen)
Construct(counts) ==
    /\ ~constructed
    /\ \E lc \in counts, n \in IntensityInputs, sendOk \in BOOLEAN :
         \E c \in {new(lc, n, sendOk)} :
             /\ spi_sent' = c.sent
             /\ spi_calls' = c.sends
             /\ spi_fault' = IF c.sends > 0 THEN ~sendOk ELSE spi_fault
             /\ call' = Call("new", <<>>, lc, <<>>, 0, c.ok)
             /\ IF c.ok
                THEN /\ constructed' = TRUE
                     /\ led_count' = c.led_count
                     /\ _intensity' = c._intensity
                     /\ buf' = c.buf
                     /\ work_buf' = c.work_buf
                     /\ buffer_map' = c.buffer_map
                     /\ requested' = n
                ELSE UNCHANGED <<constructed, led_count, _intensity, buf, work_buf,
                                 buffer_map, requested>>
    /\ UNCHANGED <<external, calls, enc>>

ConstructChain == Construct(LedCounts)

ConstructAny == Construct(AnyLedCounts)

\* a call on the chain is made
Ready ==
    /\ constructed
    /\ calls < MaxCalls
    /\ calls' = calls + 1

\* chain.intensity = n/IntensityDen
SetIntensity ==
    /\ Ready
    /\ \E n \in IntensityInputs :
         /\ _intensity' = intensity_setter(n)
         /\ requested' = n
         /\ call' = Call("intensity", <<>>, n, <<>>, 0, TRUE)
    /\ spi_calls' = 0
    /\ UNCHANGED <<constructed, led_count, buf, work_buf, buffer_map, external, spi_sent, spi_fault, enc>>

\* chain.show(data)
Show ==
    /\ Ready
    /\ \E data \in DataInputs, sendOk \in BOOLEAN :
         \E s \in {show(work_buf, buf, _intensity, led_count, data, sendOk)} :
             /\ work_buf' = s.work_buf
             /\ buf' = s.buf
             /\ spi_sent' = IF s.sends > 0 THEN s.sent ELSE spi_sent
             /\ spi_calls' = s.sends
             /\ spi_fault' = IF s.sends > 0 THEN ~sendOk ELSE spi_fault
             /\ call' = Call("show", data, 0, <<>>, 0, s.ok)
    /\ UNCHANGED <<constructed, led_count, _intensity, buffer_map, external, requested, enc>>

\* chain.fill_buf(data)
FillBuf ==
    /\ Ready
    /\ \E data \in DataInputs :
         \E f \in {fill_buf(work_buf, led_count, data)} :
             /\ work_buf' = f.work_buf
             /\ call' = Call("fill_buf", data, 0, <<>>, 0, f.ok)
    /\ spi_calls' = 0
    /\ UNCHANGED <<constructed, led_count, _intensity, buf, buffer_map, external,
                   spi_sent, spi_fault, requested, enc>>

\* chain.update_buf(data, start)
UpdateBuf ==
    /\ Ready
    /\ \E data \in DataInputs, start \in 0..(MaxLeds + 1) :
         \E u \in {update_buf(work_buf, led_count, data, start)} :
             /\ work_buf' = u.work_buf
             /\ call' = Call("update_buf", data, start, <<>>, u.ret, u.ok)
    /\ spi_calls' = 0
    /\ UNCHANGED <<constructed, led_count, _intensity, buf, buffer_map, external,
                   spi_sent, spi_fault, requested, enc>>

\* chain.prep_buf()
PrepBuf ==
    /\ Ready
    /\ buf' = prep_buf(work_buf, buf, _intensity, led_count)
    /\ call' = Call("prep_buf", <<>>, 0, <<>>, 0, TRUE)
    /\ spi_calls' = 0
    /\ UNCHANGED <<constructed, led_count, _intensity, work_buf, buffer_map, external,
                   spi_sent, spi_fault, requested, enc>>

\* chain.send_buf()
SendBuf ==
    /\ Ready
    /\ \E sendOk \in BOOLEAN :
         \E s \in {send_buf(work_buf, buf, _intensity, led_count, sendOk)} :
             /\ buf' = s.buf
             /\ spi_sent' = s.sent
             /\ spi_calls' = s.sends
             /\ spi_fault' = IF s.sends > 0 THEN ~sendOk ELSE spi_fault
             /\ call' = Call("send_buf", <<>>, 0, <<>>, 0, s.ok)
    /\ UNCHANGED <<constructed, led_count, _intensity, work_buf, buffer_map, external,
                   requested, enc>>

\* chain.set_buffer_map(data, r_offset, g_offset, b_offset)
SetBufferMap ==
    /\ Ready
    /\ \E data \in OffsetInputs, rgb \in ChannelOffsets :
         /\ buffer_map' = set_buffer_map(buffer_map, led_count, data, rgb[1], rgb[2], rgb[3])
         /\ call' = Call("set_buffer_map", data, 0, rgb, 0, TRUE)
    /\ spi_calls' = 0
    /\ UNCHANGED <<constructed, led_count, _intensity, buf, work_buf, external,
                   spi_sent, spi_fault, requested, enc>>

\* chain.copy_external_buf(external)
CopyExternalBuf ==
    /\ Ready
    /\ \E junk \in [OutOfBounds(external, work_buf, buffer_map, led_count) -> Junk] :
         work_buf' = _copy_external_buf(external, work_buf, buffer_map, led_count, junk)
    /\ call' = Call("copy_external_buf", <<>>, 0, <<>>, 0, TRUE)
    /\ spi_calls' = 0
    /\ UNCHANGED <<constructed, led_count, _intensity, buf, buffer_map, external,
                   spi_sent, spi_fault, requested, enc>>

Next ==
    \/ ConstructChain
    \/ SetIntensity
    \/ Show
    \/ FillBuf
    \/ UpdateBuf
    \/ PrepBuf
    \/ SendBuf
    \/ SetBufferMap
    \/ CopyExternalBuf

Spec == Init /\ [][Next]_vars

\* the same driver, constructed with any led_count, the invalid ones included
NextAny ==
    \/ ConstructAny
    \/ SetIntensity
    \/ Show
    \/ FillBuf
    \/ UpdateBuf
    \/ PrepBuf
    \/ SendBuf
    \/ SetBufferMap
    \/ CopyExternalBuf

SpecAny == Init /\ [][NextAny]_vars

-----------------------------------------------------------------------------
(* The encoder as a function: one channel value at one stored intensity. *)

InitEnc ==
    /\ NoChain
    /\ external = <<>>
    /\ \E v \in 0..255, q \in 0..256 :
         enc = [v |-> v, q |-> q, scaled |-> 0, out |-> <<>>, done |-> FALSE]

\* _prep_buf on a source of one byte
EncodeOne ==
    /\ ~enc.done
    /\ enc' = [enc EXCEPT !.scaled = scale(enc.v, enc.q),
                          !.out = _prep_buf(<<enc.v>>, Zeros(4), enc.q, 1),
                          !.done = TRUE]
    /\ UNCHANGED driver_vars

NextEnc == EncodeOne

SpecEnc == InitEnc /\ [][NextEnc]_vars

-----------------------------------------------------------------------------
(* Reading a frame. *)

\* an encoded byte: both baseline bits 0x11, payload bits only at 0x20 and 0x02
WellFormed(b) == b \in {17, 19, 49, 51}

PayloadHi(b) == (b \div 32) % 2
PayloadLo(b) == (b \div 2) % 2

\* the payload bits of four encoded bytes, read as bits 7 down to 0
Decode(o) ==
    128 * PayloadHi(o[1]) + 64 * PayloadLo(o[1]) + 32 * PayloadHi(o[2]) + 16 * PayloadLo(o[2])
        + 8 * PayloadHi(o[3]) + 4 * PayloadLo(o[3]) + 2 * PayloadHi(o[4]) + PayloadLo(o[4])

\* frame is the encoding of the work buffer wb at the stored intensity q
IsFrameOf(frame, wb, q) ==
    /\ Len(frame) = 4 * Len(wb)
    /\ \A j \in 1..Len(wb) :
         /\ \A k \in 1..4 : WellFormed(frame[4 * (j - 1) + k])
         /\ Decode(SubSeq(frame, 4 * (j - 1) + 1, 4 * j)) = ((wb[j] * q) \div 256) % 256

\* wb holds the first Min(Len(data), lc) tuples of data as (G, R, B), zero after them
IsFillOf(wb, lc, data) ==
    /\ Len(wb) = 3 * lc
    /\ \A i \in 0..(lc - 1) :
         IF i < Len(data)
         THEN /\ wb[3 * i + 1] = data[i + 1][2]
              /\ wb[3 * i + 2] = data[i + 1][1]
              /\ wb[3 * i + 3] = data[i + 1][3]
         ELSE wb[3 * i + 1] = 0 /\ wb[3 * i + 2] = 0 /\ wb[3 * i + 3] = 0

-----------------------------------------------------------------------------
(* The claims. *)

\* C1: after show(data) or fill_buf(data) the work buffer holds (G_i, R_i, B_i)
\* at bytes 3i..3i+2 for each i < min(len(data), led_count) and 0 in every
\* byte of every later LED slot, whatever it held before.
C1_FillDependsOnlyOnData ==
    call.op \in {"show", "fill_buf"} => IsFillOf(work_buf, led_count, call.data)

\* C1 witness: fill_buf with fewer tuples than LEDs, after a frame that lit the last LED
C1_Witness ==
    /\ call.op = "fill_buf"
    /\ led_count = 2
    /\ Len(call.data) = 1
    /\ \E j \in 13..24 : spi_sent[j] # 17
    /\ work_buf[4] = 0 /\ work_buf[5] = 0 /\ work_buf[6] = 0

\* C2: the stored intensity is always in [0, 256] and equals
\* round(clamp(requested, 0, 1) * 256), for every requested value.
C2_IntensityClamped ==
    constructed =>
        /\ _intensity \in 0..256
        /\ _intensity = (Max(0, Min(IntensityDen, requested)) + 1) \div 2

\* C3: at stored intensity 256 each of the four bytes encoding v has both
\* baseline bits 0x11 set and no bit outside 0x33, and the payload bits read
\* in order recover v.
C3_EncodeRoundTrip ==
    (enc.done /\ enc.q = 256) =>
        /\ Len(enc.out) = 4
        /\ \A k \in 1..4 : WellFormed(enc.out[k])
        /\ Decode(enc.out) = enc.v

\* C3 witness: 0xA5 encoded at full intensity
C3_Witness ==
    enc.done /\ enc.q = 256 /\ enc.v = 165 /\ enc.out = <<49, 49, 19, 19>>

\* C4: each show or send_buf (and the show of the constructor) sends exactly
\* once, after encoding: the buffer handed to the transport has 4*3*led_count
\* bytes and is the encoding of the work buffer as it is at that call, at the
\* intensity stored at that call; an intensity assignment changes neither
\* the work buffer nor the transmit buffer nor what was sent.
C4_SendsEncodedFrameOnce ==
    [][/\ (call'.op \in {"show", "send_buf"} \/ (call'.op = "new" /\ constructed')) =>
            /\ spi_calls' = 1
            /\ Len(spi_sent') = 4 * 3 * led_count'
            /\ IsFrameOf(spi_sent', work_buf', _intensity')
            /\ buf' = spi_sent'
       /\ call'.op = "intensity" =>
            /\ work_buf' = work_buf
            /\ buf' = buf
            /\ spi_sent' = spi_sent
            /\ spi_calls' = 0]_vars

\* C4 witness: intensity set to 1/2 after a frame with a red LED was sent at
\* full intensity; the transmit buffer still holds that frame
C4_Witness ==
    /\ call.op = "intensity"
    /\ _intensity = 128
    /\ work_buf[2] = 255
    /\ Decode(SubSeq(buf, 5, 8)) = 255
    /\ buf = spi_sent

\* C5: constructing with led_count zero or negative fails: no chain, no send.
C5_InvalidLedCountFails ==
    (call.op = "new" /\ call.num <= 0) => (~constructed /\ ~call.ok /\ spi_calls = 0)

\* C6: a failed send of show or send_buf is surfaced as the call's error,
\* send is not invoked again in that call, and a show made after a failed
\* send runs a complete fill, encode and send.
C6_SendFailureSurfaced ==
    [][/\ (call'.op \in {"show", "send_buf"} /\ spi_fault') =>
            (~call'.ok /\ spi_calls' = 1)
       /\ (call'.op \in {"show", "send_buf"} /\ ~spi_fault') => call'.ok
       /\ (spi_fault /\ call'.op = "show") =>
            /\ IsFillOf(work_buf', led_count', call'.data)
            /\ IsFrameOf(buf', work_buf', _intensity')
            /\ spi_sent' = buf'
            /\ spi_calls' = 1]_vars

\* C6 witness: the second call is a show whose send fails
C6_Witness ==
    /\ call.op = "show"
    /\ calls = 2
    /\ spi_fault
    /\ ~call.ok
    /\ spi_calls = 1
    /\ Len(call.data) = 2

\* C7: update_buf(data, start) writes tuple i as (G, R, B) at bytes
\* 3*(start+i).. for exactly the i with start+i < led_count, raises nothing,
\* leaves every other byte unchanged and returns min(start+len(data),
\* led_count) when start <= led_count.
C7_UpdateBufWritesInPlace ==
    [][call'.op = "update_buf" =>
         LET data == call'.data
             start == call'.num
         IN  /\ call'.ok
             /\ Len(work_buf') = 3 * led_count
             /\ \A i \in 0..(led_count - 1) :
                  IF i >= start /\ i - start < Len(data)
                  THEN /\ work_buf'[3 * i + 1] = data[i - start + 1][2]
                       /\ work_buf'[3 * i + 2] = data[i - start + 1][1]
                       /\ work_buf'[3 * i + 3] = data[i - start + 1][3]
                  ELSE /\ work_buf'[3 * i + 1] = work_buf[3 * i + 1]
                       /\ work_buf'[3 * i + 2] = work_buf[3 * i + 2]
                       /\ work_buf'[3 * i + 3] = work_buf[3 * i + 3]
             /\ start <= led_count => call'.ret = Min(start + Len(data), led_count)]_vars

\* C7 witness: two tuples written from LED 1 of a 2-LED chain whose LED 0 is
\* lit: the second tuple is dropped, LED 0 is kept
C7_Witness ==
    /\ call.op = "update_buf"
    /\ led_count = 2
    /\ call.num = 1
    /\ call.data = <<<<10, 20, 30>>, <<1, 2, 3>>>>
    /\ call.ret = 2
    /\ work_buf = <<0, 255, 0, 20, 10, 30>>

\* C8: set_buffer_map(offsets, r, g, b) sets entries 0..2 to r, g, b and
\* entries 3..3+k-1 to the first k = min(len(offsets), led_count) offsets,
\* keeps entries 3+k.. and the length 3 + led_count, and leaves the work
\* buffer, the transmit buffer and the intensity unchanged.
C8_SetBufferMapFrame ==
    [][call'.op = "set_buffer_map" =>
         LET offsets == call'.data
             k == Min(Len(offsets), led_count)
         IN  /\ Len(buffer_map') = 3 + led_count
             /\ \A c \in 1..3 : buffer_map'[c] = call'.rgb[c]
             /\ \A i \in 1..led_count :
                  buffer_map'[3 + i] = IF i <= k THEN offsets[i] ELSE buffer_map[3 + i]
             /\ work_buf' = work_buf
             /\ buf' = buf
             /\ _intensity' = _intensity]_vars

\* C8 witness: one offset given to a 2-LED chain whose LED 1 was mapped to 0
\* by an earlier call: the entry of LED 1 is kept
C8_Witness ==
    /\ call.op = "set_buffer_map"
    /\ led_count = 2
    /\ Len(call.data) = 1
    /\ buffer_map[4] = call.data[1]
    /\ buffer_map[5] = 0

\* C9: with an external buffer large enough for every mapped access,
\* copy_external_buf sets work_buf[3i], [3i+1], [3i+2] to ext[base[i]+g],
\* ext[base[i]+r], ext[base[i]+b] for every LED i, and leaves the map, the
\* external buffer, the transmit buffer and the intensity unchanged.
C9_CopyExternalBuf ==
    [][(/\ call'.op = "copy_external_buf"
        /\ \A i \in 1..led_count : \A c \in 1..3 :
             buffer_map[3 + i] + buffer_map[c] < Len(external)) =>
         /\ Len(work_buf') = 3 * led_count
         /\ \A i \in 1..led_count :
              /\ work_buf'[3 * (i - 1) + 1] = external[buffer_map[3 + i] + buffer_map[2] + 1]
              /\ work_buf'[3 * (i - 1) + 2] = external[buffer_map[3 + i] + buffer_map[1] + 1]
              /\ work_buf'[3 * (i - 1) + 3] = external[buffer_map[3 + i] + buffer_map[3] + 1]
         /\ buffer_map' = buffer_map
         /\ external' = external
         /\ buf' = buf
         /\ _intensity' = _intensity]_vars

\* C9 witness: a 2-LED chain mapped to the records in reverse order with red
\* and green exchanged
C9_Witness ==
    /\ call.op = "copy_external_buf"
    /\ led_count = 2
    /\ buffer_map = <<1, 0, 2, 3, 0>>
    /\ work_buf = <<4, 5, 6, 1, 2, 3>>

\* C10: for v in [0,255] and stored intensity q in [0,256] the value the
\* encoder expands is (v*q) >> 8, lies in [0,255] and does not decrease
\* when q grows.
C10_ScaleMonotone ==
    enc.done =>
        /\ enc.scaled \in 0..255
        /\ 256 * enc.scaled <= enc.v * enc.q
        /\ enc.v * enc.q < 256 * (enc.scaled + 1)
        /\ Decode(enc.out) = enc.scaled
        /\ \A q1 \in 0..enc.q : scale(enc.v, q1) <= enc.scaled

\* C10 witness: 255 at half intensity
C10_Witness ==
    enc.done /\ enc.v = 255 /\ enc.q = 128 /\ enc.scaled = 127
====
